---- MODULE Spec2Model ----
(***************************************************************************)
(* Pairwise Euclidean distance, as computed by the variants of            *)
(* notebooks/misc/CodeOptimization.ipynb (pdist_python, pdist_numpy,      *)
(* pdist_numexpr, pdist_numba, pdist_cython, pdist_scipy) and driven by   *)
(* the notebook's timing cells.                                           *)
(*                                                                         *)
(* Arithmetic.  The code computes in IEEE-754 binary64.  The model keeps  *)
(* the format's behaviour (every operation is the exact result rounded to *)
(* the nearest representable value, ties to even) with a significand of   *)
(* MantBits bits instead of 53, so that rounding happens on inputs small  *)
(* enough to enumerate.  Coordinates and accumulators are integer valued; *)
(* a square root is held in units of 2^-(MantBits-1) (see Scale).         *)
(***************************************************************************)
EXTENDS Integers, Sequences, FiniteSets, TLC

VARIABLES
    xs,        \* the array bound to the notebook's global xs
    xs0,       \* history: the value xs had when it was created
    cellNo,    \* the timing cell the notebook is at (index into Order)
    cur,       \* the function of the call in progress, or of the last call
    pc,        \* position inside the call: idle, unpack, alloc, loop
    n, p,      \* locals of the loop variants
    D,         \* the result buffer of the loop variants
    i, j,      \* loop counters
    s,         \* the accumulator (s in pdist_python, d in pdist_cython)
    written,   \* history: cells written by the call in progress / last call
    allocd,    \* history: the call in progress / last call allocated D
    outs,      \* what each function's calls gave back, in call order
    cyBuild,   \* how the %%cython cell was built: unbuilt, separate, fused
    jitCache   \* numba's dispatcher holds a compiled specialisation

vars == <<xs, xs0, cellNo, cur, pc, n, p, D, i, j, s, written, allocd, outs,
          cyBuild, jitCache>>

----------------------------------------------------------------------------
(* Bounds of the model *)

MaxN == 3          \* most points in a PointSet
MaxP == 3          \* most coordinates per point
MaxElems == 6      \* most coordinates in a PointSet, n * p
MantBits == 5      \* significand width of the modelled binary format
Reps == 2          \* calls a timing cell makes to its function

\* coordinate values of the enumerated PointSets (all representable)
Coords == {0, 1, 7}

\* what freshly allocated, never written memory may hold (np.empty)
Junk == {-1, -2}

----------------------------------------------------------------------------
(* Floating point: round to nearest, ties to even, MantBits significant bits *)

RECURSIVE Pow2(_)
Pow2(k) == IF k <= 0 THEN 1 ELSE 2 * Pow2(k - 1)

RECURSIVE BitLen(_)
BitLen(x) == IF x <= 0 THEN 0 ELSE 1 + BitLen(x \div 2)

Abs(x) == IF x < 0 THEN -x ELSE x

\* units of a stored square root: 1.0 is held as Scale
Scale == Pow2(MantBits - 1)

\* the representable value nearest to the non-negative integer x
RoundSig(x) ==
    IF x < Pow2(MantBits) THEN x
    ELSE LET e    == BitLen(x) - MantBits
             m    == x \div Pow2(e)
             r    == x % Pow2(e)
             half == Pow2(e - 1)
         IN  IF r > half \/ (r = half /\ m % 2 = 1)
             THEN (m + 1) * Pow2(e)
             ELSE m * Pow2(e)

\* the representable value nearest to x (x is evaluated once)
Round(x) ==
    CHOOSE r \in {IF v < 0 THEN -RoundSig(-v) ELSE RoundSig(v) : v \in {x}} :
        TRUE

FSub(a, b) == Round(a - b)
FMul(a, b) == Round(a * b)
FAdd(a, b) == Round(a + b)
\* a fused multiply-add rounds once
FMulAdd(a, b, c) == Round(a * b + c)

\* floor of the square root of x (x is evaluated once)
ISqrt(x) ==
    CHOOSE r \in {CHOOSE q \in 0..Pow2(MantBits) :
                      q * q <= v /\ v < (q + 1) * (q + 1) : v \in {x}} : TRUE

\* faulty variant: the square root left out (the squared distance is stored)
FSqrtOmitted(x) == x * Scale

\* sqrt of the integer-valued x >= 0, correctly rounded, in units of 1/Scale
\* (x and the integer root q are evaluated once)
FSqrt(x) ==
    CHOOSE r \in
        {IF v <= 0 THEN 0
         ELSE LET e == (BitLen(v) - 1) \div 2       \* 2^e <= sqrt(v) < 2^(e+1)
                  k == MantBits - 1 - e
              IN  CHOOSE w \in
                      {LET up == IF k >= 0 THEN v * Pow2(2 * k) > q * q + q
                                           ELSE v > (q * q + q) * Pow2(-2 * k)
                       IN  (IF up THEN q + 1 ELSE q) * Pow2(e)
                       : q \in {IF k >= 0 THEN ISqrt(v * Pow2(2 * k))
                                          ELSE ISqrt(v \div Pow2(-2 * k))}}
                      : TRUE
         : v \in {x}} : TRUE

----------------------------------------------------------------------------
(* Arrays *)

Rank(x) == Len(x.shape)

\* index tuples of an array of the given shape
Idx(shape) ==
    IF Len(shape) = 1 THEN {<<a>> : a \in 0..(shape[1] - 1)}
    ELSE IF Len(shape) = 2
         THEN {<<a, b>> : a \in 0..(shape[1] - 1), b \in 0..(shape[2] - 1)}
         ELSE {<<a, b, k>> : a \in 0..(shape[1] - 1), b \in 0..(shape[2] - 1),
                             k \in 0..(shape[3] - 1)}

\* xs[i, k] of a rank-2 array
At(x, a, k) == x.val[a + 1][k + 1]

NoBuffer == [shape |-> <<>>, cell |-> <<>>]

ArrayOutcome(shape, cell) ==
    [kind |-> "array", shape |-> shape, cell |-> cell, error |-> ""]
Raised(err) ==
    [kind |-> "raise", shape |-> <<>>, cell |-> <<>>, error |-> err]

----------------------------------------------------------------------------
(* Inputs *)

Shapes == {sh \in (0..MaxN) \X (0..MaxP) : sh[1] * sh[2] <= MaxElems}

\* rectangular float64 arrays of shape (n, p), p = 0 included
Matrices ==
    UNION {{[dtype |-> "float64", shape |-> <<sh[1], sh[2]>>, val |-> v] :
                v \in [1..sh[1] -> [1..sh[2] -> Coords]]} : sh \in Shapes}

\* rank-1 float64 arrays of length m (val holds the one axis as a row)
Vectors ==
    UNION {{[dtype |-> "float64", shape |-> <<m>>, val |-> <<v>>] :
                v \in [1..m -> {0, 1}]} : m \in 0..2}

\* rows of differing lengths: numpy holds them as a rank-1 array of objects
Ragged ==
    {[dtype |-> "object", shape |-> <<2>>, val |-> <<<<a>>, <<a, b>>>>] :
        a \in {0, 3}, b \in {4}}

\* the PointSets the specification's scenarios name
Scenarios ==
    {[dtype |-> "float64", shape |-> <<2, 2>>, val |-> <<<<0, 0>>, <<3, 4>>>>],
     [dtype |-> "float64", shape |-> <<1, 3>>, val |-> <<<<1, 1, 1>>>>]}

Inputs == Matrices \cup Scenarios \cup Vectors \cup Ragged

----------------------------------------------------------------------------
(* pdist_python (also the body numba compiles) and pdist_cython *)

LoopVariants == {"python", "numba", "cython"}

\* faulty variant: the buffer shaped like the input, np.empty((n, p))
AllocShapeNP(nn, pp) == <<nn, pp>>

\* np.empty((n, n), np.float64): the shape of the buffer
AllocShape(nn, pp) == <<nn, nn>>

\* faulty variant: the reset left out, the accumulator carried over
AccInitCarried(prev) == prev

\* s = 0.0 (d = 0.0): the accumulator a cell starts from, whatever it held
AccInit(prev) == 0

\* faulty variant: the column index of the second operand stuck at 0
TmpFirstColumn(x, a, b, k) == FSub(At(x, a, k), At(x, b, 0))

\* tmp = xs[i,k] - xs[j,k]
Tmp(x, a, b, k) == FSub(At(x, a, k), At(x, b, k))

\* faulty variant: s = tmp * tmp, an assignment for the +=
AccStepAssign(acc, t, contract) == FMul(t, t)

\* s += tmp * tmp; compiled C may contract d += tmp * tmp into one fused
\* multiply-add (the build decides)
AccStep(acc, t, contract) ==
    IF contract THEN FMulAdd(t, t, acc) ELSE FAdd(acc, FMul(t, t))

\* for k in range(p): the accumulator after coordinates k..pp-1
RECURSIVE Accumulate(_, _, _, _, _, _, _)
Accumulate(x, a, b, k, pp, acc, contract) ==
    IF k >= pp THEN acc
    ELSE Accumulate(x, a, b, k + 1, pp, AccStep(acc, Tmp(x, a, b, k), contract),
                    contract)

\* faulty variant: range(i, n), the upper triangle only and no mirroring
RangeStartAtRow(a) == a

\* range(n): where the loop over j starts in row a
RangeStart(a) == 0

\* faulty variant: D[i, 0] = v
StoreFirstColumn(buf, a, b, v) ==
    [buf EXCEPT !.cell = [t \in DOMAIN buf.cell |->
                            IF t = <<a, 0>> THEN v ELSE buf.cell[t]]]

\* faulty variant: D[i, i] = v
StoreDiagonal(buf, a, b, v) ==
    [buf EXCEPT !.cell = [t \in DOMAIN buf.cell |->
                            IF t = <<a, a>> THEN v ELSE buf.cell[t]]]

\* D[i, j] = v
Store(buf, a, b, v) ==
    [buf EXCEPT !.cell = [t \in DOMAIN buf.cell |->
                            IF t = <<a, b>> THEN v ELSE buf.cell[t]]]

----------------------------------------------------------------------------
(* pdist_numpy: np.sqrt(((xs[:,None,:] - xs)**2).sum(-1)) *)

\* xs[:,None,:] - xs, broadcast to shape (n, n, p)
NpBroadcastSub(x) ==
    [t \in Idx(<<x.shape[1], x.shape[1], x.shape[2]>>) |->
        FSub(At(x, t[1], t[3]), At(x, t[2], t[3]))]

\* a**2, elementwise
NpSquare(a) == [t \in DOMAIN a |-> FMul(a[t], a[t])]

\* add.reduce along the last axis (axes shorter than numpy's pairwise block
\* of 8 are summed left to right); an empty axis sums to 0.0
RECURSIVE NpAddReduce(_, _, _, _, _, _)
NpAddReduce(a, r, c, k, pp, acc) ==
    IF k >= pp THEN acc
    ELSE NpAddReduce(a, r, c, k + 1, pp, FAdd(acc, a[<<r, c, k>>]))

NpSumLast(a, nn, pp) ==
    [t \in Idx(<<nn, nn>>) |-> NpAddReduce(a, t[1], t[2], 0, pp, 0)]

\* faulty variant: np.sqrt left out
NpSqrtOmitted(a) == [t \in DOMAIN a |-> a[t] * Scale]

NpSqrt(a) == [t \in DOMAIN a |-> FSqrt(a[t])]

\* (Inputs holds arrays of rank 1 and 2; on rank 1 the index fails)
pdist_numpy(x) ==
    IF Rank(x) # 2
    THEN Raised("IndexError")        \* xs[:,None,:] indexes two axes
    ELSE ArrayOutcome(<<x.shape[1], x.shape[1]>>,
             NpSqrt(NpSumLast(NpSquare(NpBroadcastSub(x)),
                              x.shape[1], x.shape[2])))

----------------------------------------------------------------------------
(* pdist_numexpr: np.sqrt(ne.evaluate('sum((a-xs)**2, axis=2)')) *)

\* (a-xs)**2 at [i, j, k]; numexpr evaluates the power 2 as a product
NeTerm(x, r, c, k) ==
    LET d == FSub(At(x, r, k), At(x, c, k)) IN FMul(d, d)

RECURSIVE NeSumAxis2(_, _, _, _, _)
NeSumAxis2(x, r, c, k, acc) ==
    IF k >= x.shape[2] THEN acc
    ELSE NeSumAxis2(x, r, c, k + 1, FAdd(acc, NeTerm(x, r, c, k)))

pdist_numexpr(x) ==
    IF Rank(x) # 2
    THEN Raised("IndexError")        \* a = xs[:, np.newaxis, :]
    ELSE ArrayOutcome(<<x.shape[1], x.shape[1]>>,
             [t \in Idx(<<x.shape[1], x.shape[1]>>) |->
                 FSqrt(NeSumAxis2(x, t[1], t[2], 0, 0))])

----------------------------------------------------------------------------
(* pdist_scipy: scipy.spatial.distance.pdist, the library routine.  It    *)
(* returns the condensed form: the distances of the pairs i < j, in row   *)
(* order, as a vector of length n(n-1)/2.                                 *)

\* position of the pair (a, b), a < b, in the condensed vector
CondensedIndex(nn, a, b) == nn * a - (a * (a + 1)) \div 2 + (b - a - 1)

RECURSIVE ScipySumSq(_, _, _, _, _)
ScipySumSq(x, a, b, k, acc) ==
    IF k >= x.shape[2] THEN acc
    ELSE LET d == FSub(At(x, a, k), At(x, b, k))
         IN  ScipySumSq(x, a, b, k + 1, FAdd(acc, FMul(d, d)))

pdist_scipy(x) ==
    IF Rank(x) # 2
    THEN Raised("ValueError")        \* "A 2-dimensional array must be passed."
    ELSE LET nn    == x.shape[1]
             m     == (nn * (nn - 1)) \div 2
             pairs == {ab \in (0..(nn - 1)) \X (0..(nn - 1)) : ab[1] < ab[2]}
             pair(t) == CHOOSE ab \in pairs : CondensedIndex(nn, ab[1], ab[2]) = t
         IN  ArrayOutcome(<<m>>,
                 [t \in Idx(<<m>>) |->
                     FSqrt(ScipySumSq(x, pair(t[1])[1], pair(t[1])[2], 0, 0))])

----------------------------------------------------------------------------
(* The notebook: xs is created once, then the timing cells run in order,  *)
(* each calling its function Reps times with xs.                          *)

Order == <<"python", "numpy", "numexpr", "numba", "cython", "scipy">>

Init ==
    /\ xs \in Inputs
    /\ xs0 = xs
    /\ cellNo = 1
    /\ cur = "none"
    /\ pc = "idle"
    /\ n = 0 /\ p = 0 /\ i = 0 /\ j = 0 /\ s = 0
    /\ D = NoBuffer
    /\ written = 0
    /\ allocd = FALSE
    /\ outs = [v \in {Order[c] : c \in 1..Len(Order)} |-> <<>>]
    /\ cyBuild = "unbuilt"
    /\ jitCache = FALSE

\* the function the notebook calls next, if any
Due(v) == pc = "idle" /\ cellNo <= Len(Order) /\ Order[cellNo] = v

\* the call of v ends with outcome o: %timeit goes on to its next call, or,
\* after Reps calls or an exception, the notebook goes on to the next cell;
\* the frame of the call is gone
Finish(v, o) ==
    /\ outs' = [outs EXCEPT ![v] = Append(@, o)]
    /\ cellNo' = IF o.kind = "raise" \/ Len(outs[v]) + 1 >= Reps
                 THEN cellNo + 1 ELSE cellNo
    /\ pc' = "idle"
    /\ n' = 0 /\ p' = 0 /\ i' = 0 /\ j' = 0 /\ s' = 0
    /\ D' = NoBuffer

\* entry of a loop variant
Enter(v) ==
    /\ Due(v)
    /\ cur' = v
    /\ pc' = "unpack"
    /\ written' = 0
    /\ allocd' = FALSE
    /\ UNCHANGED <<xs, xs0, cellNo, n, p, D, i, j, s, outs>>

CallPython == Enter("python") /\ UNCHANGED <<cyBuild, jitCache>>

\* pdist_numba = jit(pdist_python): the first call compiles, later calls
\* reuse the compiled specialisation
CallNumba == Enter("numba") /\ jitCache' = TRUE /\ UNCHANGED cyBuild

\* the %%cython cell is built before pdist_cython can be called; whether
\* the C compiler contracts d += tmp * tmp is the build's choice
BuildCython ==
    /\ Due("cython")
    /\ cyBuild = "unbuilt"
    /\ cyBuild' \in {"separate", "fused"}
    /\ UNCHANGED <<xs, xs0, cellNo, cur, pc, n, p, D, i, j, s, written, allocd,
                   outs, jitCache>>

CallCython ==
    /\ cyBuild # "unbuilt"
    /\ Enter("cython")
    /\ UNCHANGED <<cyBuild, jitCache>>

\* n, p = xs.shape (python, numba); the double[:, ::1] argument and
\* xs.shape[0], xs.shape[1] (cython): an array of another rank raises here
Unpack ==
    /\ pc = "unpack"
    /\ IF Rank(xs) = 2
       THEN /\ n' = xs.shape[1]
            /\ p' = xs.shape[2]
            /\ pc' = "alloc"
            /\ UNCHANGED <<cellNo, D, i, j, s, outs>>
       ELSE Finish(cur, Raised(IF cur = "numba" THEN "TypingError"
                                                ELSE "ValueError"))
    /\ UNCHANGED <<xs, xs0, cur, written, allocd, cyBuild, jitCache>>

\* D = np.empty((n, n), np.float64): the memory holds whatever it held
Alloc ==
    /\ pc = "alloc"
    /\ \E g \in Junk :
          D' = [shape |-> AllocShape(n, p),
                cell  |-> [t \in Idx(AllocShape(n, p)) |-> g]]
    /\ allocd' = TRUE
    /\ i' = RangeStart(0) /\ j' = RangeStart(0)
    /\ pc' = "loop"
    /\ UNCHANGED <<xs, xs0, cellNo, cur, n, p, s, written, outs, cyBuild,
                   jitCache>>

\* one pass of the body of "for j in range(n)": the cell (i, j)
Cell ==
    /\ pc = "loop"
    /\ i < n
    /\ LET acc == Accumulate(xs, i, j, 0, p, AccInit(s),
                             cur = "cython" /\ cyBuild = "fused")
       IN  /\ s' = acc
           /\ D' = Store(D, i, j, FSqrt(acc))
    /\ written' = written + 1
    /\ IF j + 1 < n THEN i' = i /\ j' = j + 1
                    ELSE i' = i + 1 /\ j' = RangeStart(i + 1)
    /\ UNCHANGED <<xs, xs0, cellNo, cur, pc, n, p, allocd, outs, cyBuild,
                   jitCache>>

\* return D (return np.asarray(D))
Return ==
    /\ pc = "loop"
    /\ i >= n
    /\ Finish(cur, ArrayOutcome(D.shape, D.cell))
    /\ UNCHANGED <<xs, xs0, cur, written, allocd, cyBuild, jitCache>>

\* a call of one of the array-expression or library functions
Whole(v, o) ==
    /\ Due(v)
    /\ cur' = v
    /\ written' = IF o.kind = "array" THEN Cardinality(DOMAIN o.cell) ELSE 0
    /\ allocd' = (o.kind = "array")
    /\ Finish(v, o)
    /\ UNCHANGED <<xs, xs0, cyBuild, jitCache>>

CallNumpy == Whole("numpy", pdist_numpy(xs))
CallNumexpr == Whole("numexpr", pdist_numexpr(xs))
CallScipy == Whole("scipy", pdist_scipy(xs))

Next ==
    \/ CallPython
    \/ CallNumba
    \/ BuildCython
    \/ CallCython
    \/ Unpack
    \/ Alloc
    \/ Cell
    \/ Return
    \/ CallNumpy
    \/ CallNumexpr
    \/ CallScipy

Spec == Init /\ [][Next]_vars


----------------------------------------------------------------------------
(* The loop body under another iteration order.  The first call of        *)
(* pdist_python and of pdist_cython runs the loops as written; every later *)
(* call runs the same body (lines 167-171, 487-491) on the cells in an     *)
(* order chosen freely, which covers every schedule of workers that own    *)
(* distinct cells.  The accumulator s is whatever the previously computed  *)
(* cell left in it; the cell is named by the choice, not by the loop       *)
(* variables i and j.  pdist_numba always runs the loops as written.       *)

MaxOrderN == 2       \* most points of an input whose cells are reordered
MaxOrderElems == 4   \* most coordinates (n * p) of such an input

OrderInputs ==
    {x \in Matrices : x.shape[1] <= MaxOrderN
                      /\ x.shape[1] * x.shape[2] <= MaxOrderElems}

\* the cells of the buffer no iteration has stored to yet
Unassigned(buf) == {t \in DOMAIN buf.cell : buf.cell[t] \in Junk}

InitAnyOrder == Init /\ xs \in OrderInputs

\* the variants whose loops (lines 165-171, 485-491) are reordered
OrderVariants == {"python", "cython"}

\* the call in progress runs the loops as written
AsWritten == pc = "loop" /\ (Len(outs[cur]) = 0 \/ cur \notin OrderVariants)

SequentialCell == AsWritten /\ Cell

SequentialReturn == AsWritten /\ Return

\* the body of the loops for a cell (a, b) that is still to be computed
CellAnyOrder ==
    /\ pc = "loop"
    /\ ~AsWritten
    /\ \E t \in Unassigned(D) :
          LET acc == Accumulate(xs, t[1], t[2], 0, p, AccInit(s),
                                cur = "cython" /\ cyBuild = "fused")
          IN  /\ s' = acc
              /\ D' = Store(D, t[1], t[2], FSqrt(acc))
    /\ written' = written + 1
    /\ UNCHANGED <<xs, xs0, cellNo, cur, pc, n, p, i, j, allocd, outs,
                   cyBuild, jitCache>>

\* return D, once every cell has been computed
ReturnAnyOrder ==
    /\ pc = "loop"
    /\ ~AsWritten
    /\ Unassigned(D) = {}
    /\ Finish(cur, ArrayOutcome(D.shape, D.cell))
    /\ UNCHANGED <<xs, xs0, cur, written, allocd, cyBuild, jitCache>>

NextAnyOrder ==
    \/ CallPython
    \/ CallNumba
    \/ BuildCython
    \/ CallCython
    \/ Unpack
    \/ Alloc
    \/ SequentialCell
    \/ SequentialReturn
    \/ CellAnyOrder
    \/ ReturnAnyOrder
    \/ CallNumpy
    \/ CallNumexpr
    \/ CallScipy

SpecAnyOrder == InitAnyOrder /\ [][NextAnyOrder]_vars

----------------------------------------------------------------------------
(* The notebook on tables of at most MaxOrderElems coordinates, with       *)
(* progress of a running call: a call that has been entered keeps          *)
(* executing, the interpreter (the compiled function) runs the next        *)
(* statement of the function body.  Whether and when the notebook's cells  *)
(* are run is not constrained.                                             *)

LoopInputs == {x \in Matrices : x.shape[1] * x.shape[2] <= MaxOrderElems}

InitFair == Init /\ xs \in LoopInputs

SpecFair ==
    /\ InitFair
    /\ [][Next]_vars
    /\ WF_vars(Unpack)
    /\ WF_vars(Alloc)
    /\ WF_vars(Cell)
    /\ WF_vars(Return)

----------------------------------------------------------------------------
(* Properties *)

\* a PointSet: a rectangular table of doubles with p >= 1 columns
IsPointSet(x) == x.dtype = "float64" /\ Rank(x) = 2 /\ x.shape[2] >= 1

\* input that is no PointSet: rows of differing lengths, a rank other than
\* 2, or no coordinate column
Malformed(x) == ~IsPointSet(x)

Max(a, b) == IF a >= b THEN a ELSE b

\* sqrt( sum over k in 0..p-1 of (points[a][k] - points[b][k])^2 ), the sum
\* from k = 0 upwards, in the arithmetic of the code
RECURSIVE SumSqTo(_, _, _, _)
SumSqTo(x, a, b, k) ==
    IF k = 0 THEN 0
    ELSE LET d == FSub(At(x, a, k - 1), At(x, b, k - 1))
         IN  FAdd(SumSqTo(x, a, b, k - 1), FMul(d, d))

Euclid(x, a, b) == FSqrt(SumSqTo(x, a, b, x.shape[2]))

\* a and b agree within two machine epsilons (2 * 2^(1-MantBits)), relative
Close(a, b) == Abs(a - b) * Pow2(MantBits) <= 4 * Max(a, b)

\* the call of v has ended and the notebook has not started another: outs
\* changes only when a call ends, so every outcome is LastOutcome in the
\* state its call ends in
Ended(v) == pc = "idle" /\ cur = v

\* the outcome of the call that ended last
LastOutcome == outs[cur][Len(outs[cur])]

\* the outcomes of all finished calls to the functions in vs
OutcomesOf(vs) == {outs[v][c] : <<v, c>> \in
                      {vc \in vs \X (1..Reps) : vc[2] <= Len(outs[vc[1]])}}

\* C1: for every PointSet of shape (n, p), p >= 1, pdist_python returns an
\* n-by-n matrix whose entry (i, j) is sqrt(sum_k (points[i][k] -
\* points[j][k])^2); [[0,0],[3,4]] gives [[0,5],[5,0]] and [[1,1,1]] gives [[0]]
C1_PythonComputesDistances ==
    (Ended("python") /\ IsPointSet(xs)) =>
        LET o == LastOutcome
        IN  /\ o.kind = "array"
            /\ o.shape = <<xs.shape[1], xs.shape[1]>>
            /\ DOMAIN o.cell = Idx(<<xs.shape[1], xs.shape[1]>>)
            /\ \A t \in Idx(o.shape) : o.cell[t] = Euclid(xs, t[1], t[2])
            /\ (xs.val = <<<<0, 0>>, <<3, 4>>>> =>
                    /\ o.cell[<<0, 0>>] = 0 /\ o.cell[<<0, 1>>] = 5 * Scale
                    /\ o.cell[<<1, 0>>] = 5 * Scale /\ o.cell[<<1, 1>>] = 0)
            /\ (xs.val = <<<<1, 1, 1>>>> => o.cell[<<0, 0>>] = 0)

C1_Witness ==
    /\ Ended("python")
    /\ xs.shape = <<2, 2>>
    /\ xs.val = <<<<0, 0>>, <<3, 4>>>>
    /\ LastOutcome.cell[<<0, 1>>] = 5 * Scale

FiveVariants == {"python", "numpy", "numexpr", "numba", "cython"}

C3_ScipyReturnsDistanceMatrix ==
    (Ended("scipy") /\ IsPointSet(xs)) =>
        /\ LastOutcome.kind = "array"
        /\ LastOutcome.shape = <<xs.shape[1], xs.shape[1]>>
        /\ LastOutcome.cell = outs["python"][1].cell

\* C4: for every malformed input (rows of differing lengths, p = 0, rank
\* other than 2) the call signals an error instead of returning a matrix
C4_MalformedRaises ==
    ((Ended("python") \/ Ended("numpy")) /\ Malformed(xs)) =>
        LastOutcome.kind = "raise"

\* C5: a call returns the full n-by-n matrix, every cell computed, or raises
\* before the buffer is allocated and before any cell is written; nothing is
\* raised once work has begun and no partly filled matrix reaches the caller
C5_AllOrNothing ==
    /\ (Ended("python") \/ Ended("cython")) =>
           IF LastOutcome.kind = "array"
           THEN /\ LastOutcome.shape = <<xs.shape[1], xs.shape[1]>>
                /\ DOMAIN LastOutcome.cell = Idx(LastOutcome.shape)
                /\ \A t \in DOMAIN LastOutcome.cell : LastOutcome.cell[t] \notin Junk
                /\ allocd /\ written = xs.shape[1] * xs.shape[1]
           ELSE /\ LastOutcome.kind = "raise"
                /\ ~allocd /\ written = 0
    /\ (pc \in {"unpack", "alloc"}) => (~allocd /\ written = 0 /\ D = NoBuffer)

C5_Witness ==
    /\ Ended("cython")
    /\ LastOutcome.kind = "raise"
    /\ Len(outs["python"]) = 1
    /\ outs["python"][1].kind = "raise"

\* C6: for every PointSet the matrix a loop variant returns is symmetric,
\* D[i][j] = D[j][i], though (i, j) and (j, i) are computed separately with
\* the operands of the subtraction swapped
C6_Symmetric ==
    (pc = "idle" /\ cur \in LoopVariants /\ IsPointSet(xs)) =>
        \A t \in DOMAIN LastOutcome.cell :
            LastOutcome.cell[t] = LastOutcome.cell[<<t[2], t[1]>>]

C6_Witness ==
    /\ Ended("python")
    /\ IsPointSet(xs)
    /\ xs.shape[1] >= 2
    /\ xs.val[1] # xs.val[2]
    /\ LastOutcome.cell[<<0, 1>>] > 0
    /\ LastOutcome.cell[<<0, 1>>] = LastOutcome.cell[<<1, 0>>]

\* C7: for every PointSet and every i the diagonal entry D[i][i] of the
\* returned matrix is exactly 0
C7_ZeroDiagonal ==
    (pc = "idle" /\ cur \in LoopVariants /\ IsPointSet(xs)) =>
        \A a \in 0..(xs.shape[1] - 1) : LastOutcome.cell[<<a, a>>] = 0

C7_Witness ==
    /\ Ended("python")
    /\ IsPointSet(xs)
    /\ xs.shape[1] = MaxN
    /\ LastOutcome.cell[<<MaxN - 1, MaxN - 2>>] > 0
    /\ LastOutcome.cell[<<MaxN - 1, MaxN - 1>>] = 0

\* C8: for a PointSet with n = 0 points (shape (0, p), p >= 1) the call
\* raises nothing, returns an empty 0-by-0 matrix and computes no cell
C8_EmptyPointSet ==
    (IsPointSet(xs) /\ xs.shape[1] = 0 /\ cur \in LoopVariants) =>
        /\ written = 0
        /\ pc = "idle" =>
               /\ LastOutcome.kind = "array"
               /\ LastOutcome.shape = <<0, 0>>
               /\ DOMAIN LastOutcome.cell = {}

C8_Witness ==
    /\ Ended("python")
    /\ xs.shape = <<0, 2>>
    /\ xs.dtype = "float64"
    /\ LastOutcome.kind = "array"

\* C9: two successive calls on the same PointSet give identical output: the
\* first call leaves the input as it was and leaves nothing behind that
\* changes the second call's result
C9_SecondCallIdentical ==
    /\ xs = xs0
    /\ (Ended("python") \/ Ended("numba")) =>
           \A c \in 1..Len(outs[cur]) : outs[cur][c] = LastOutcome

C9_Witness ==
    /\ Ended("numba")
    /\ IsPointSet(xs)
    /\ xs.shape[1] >= 2
    /\ Len(outs["numba"]) = 2
    /\ jitCache
    /\ LastOutcome.kind = "array"
    /\ LastOutcome.cell[<<0, 1>>] > 0

C11_AnyOrderSameMatrix ==
    (cur \in OrderVariants /\ Len(outs[cur]) >= 1
        /\ outs[cur][1].kind = "array") =>
        /\ pc = "loop" =>
               \A t \in DOMAIN D.cell \ Unassigned(D) :
                   D.cell[t] = outs[cur][1].cell[t]
        /\ pc = "idle" => LastOutcome = outs[cur][1]

\* a later call has computed the last cell before the first one, after a
\* cell with a nonzero sum
C11_Witness ==
    /\ cur = "cython"
    /\ pc = "loop"
    /\ Len(outs[cur]) >= 1
    /\ n >= 2
    /\ <<0, 0>> \in Unassigned(D)
    /\ <<n - 1, n - 1>> \notin Unassigned(D)
    /\ <<0, n - 1>> \notin Unassigned(D)
    /\ D.cell[<<0, n - 1>>] > 0

\* C12: for every input of shape (n, p) a call of pdist_python or of
\* pdist_cython comes to its end; while the loops run, the number of stores
\* made equals the number of cells assigned (no cell is stored to twice);
\* and at the return all n*n cells of the np.empty buffer have been
\* assigned, by n*n stores, so that no uninitialised cell is returned
C12_TerminatesEveryCellOnce ==
    /\ [](((pc = "loop" /\ cur \in {"python", "cython"}) =>
             /\ DOMAIN D.cell = Idx(<<n, n>>)
             /\ written = Cardinality(DOMAIN D.cell \ Unassigned(D))
             /\ written <= n * n)
          /\ (((Ended("python") \/ Ended("cython")) /\ Rank(xs) = 2) =>
                /\ LastOutcome.kind = "array"
                /\ DOMAIN LastOutcome.cell = Idx(<<xs.shape[1], xs.shape[1]>>)
                /\ \A t \in DOMAIN LastOutcome.cell :
                       LastOutcome.cell[t] \notin Junk
                /\ written = xs.shape[1] * xs.shape[1]))
    /\ ((pc # "idle" /\ cur \in {"python", "cython"}) ~> (pc = "idle"))

\* a call of pdist_cython on MaxN points has returned, after a store to
\* each cell
C12_Witness ==
    /\ Ended("cython")
    /\ xs.shape[1] = MaxN
    /\ xs.shape[2] >= 1
    /\ written = MaxN * MaxN
    /\ LastOutcome.kind = "array"
    /\ \A t \in Idx(<<MaxN, MaxN>>) : LastOutcome.cell[t] >= 0
    /\ \E t \in Idx(<<MaxN, MaxN>>) : LastOutcome.cell[t] > 0

====
